---- MODULE Spec2Model ----
(***************************************************************************)
(* Model of cerbo_gx_fridge_temp.py: main() connects to the system bus,    *)
(* provisions five settings paths, claims the service name, exports the    *)
(* TemperatureService object and then samples read_temp() in a loop.       *)
(*                                                                         *)
(* Temperatures are integers in thousandths of a degree Celsius (the       *)
(* DS18B20 branch of read_temp divides the sensor's integer by 1000.0).    *)
(*                                                                         *)
(* The bus, the settings service, GLib and the sensor are the environment: *)
(* every call into them returns or raises, and both outcomes are drawn     *)
(* with \E.  The code never runs or quits the GLib main loop it creates,   *)
(* so is_running() is one value per MainLoop object; that value is chosen  *)
(* when the object is created.                                             *)
(***************************************************************************)
EXTENDS Integers, Sequences, FiniteSets, TLC

VARIABLES
    pc,            \* position of main()
    step,          \* index in Steps of the settings path being provisioned
    attempts,      \* executions of line 189 so far
    busUp,         \* environment: the system bus accepts connections
    connGen,       \* identity of the connection held in `bus` (0: none yet)
    connAlive,     \* environment: that connection is still open
    store,         \* environment: com.victronenergy.settings, path -> value
    nameClaimed,   \* SERVICE_NAME requested on the connection `bus`
    registered,    \* number of objects registered at OBJ_PATH on `bus`
    objId,         \* identity of the object bound to temperature_service
    temperature,   \* temperature_service._temperature (read once objId > 0)
    temp,          \* local variable temp of the sampling loop (set by 298;
                   \* 0 where it is not read before 298 sets it again)
    running,       \* mainloop.is_running() of the current MainLoop object
    slept,         \* argument of the time.sleep that main() last took, until
                   \* the statement after it has run (0: none)
    excKind,       \* class of the exception in flight ("none" once its
                   \* handler at line 302, 306 or 310 has finished)
    excAt,         \* pc of the statement that raised it
    getErr,        \* why settings.GetValue raised, while its except clause
                   \* runs
    degraded,      \* the most recent sampling cycle ended in line 302
    writes,        \* calls of the Value setter on the current object
    signals,       \* PropertiesChanged signals emitted by the current object
    lastSet,       \* argument of the most recent Value setter call
    sampleKind,    \* how read_temp ended in the current pass of the loop
    fresh,         \* no settings path existed when main() started
    faulted,       \* some call failed for a reason other than a missing
                   \* settings path, or the bus dropped
    externals,     \* another bus client has written a settings path
    textRead,      \* what a bus client last got from Text, if it did since
                   \* the Value was last set and the object is on the bus
    done,          \* the provisioning steps completed since line 189 last
                   \* ran, in the order of their completion
    objGen,        \* connGen at the time the current object was registered
    exportAttempt  \* attempts at the time line 245 last ran (0: never)

vars == <<pc, step, attempts, busUp, connGen, connAlive, store, nameClaimed,
          registered, objId, temperature, temp, running, slept, excKind,
          excAt, getErr, degraded, writes, signals, lastSet, sampleKind,
          fresh, faulted, externals, textRead, done, objGen, exportAttempt>>

(***************************************************************************)
(* Bounds of the model.                                                    *)
(***************************************************************************)
MaxAttempts == 2
MaxWrites == 2

(***************************************************************************)
(* Program constants.                                                      *)
(***************************************************************************)
SERVICE_NAME == "com.victronenergy.temperature.brass_monkey"
OBJ_PATH == "/Settings/Temperature/BrassMonkey"
DRIVER_NAME == "Brass Monkey Fridge Monitor"
DEVICE_INSTANCE == 245
PRODUCT_ID == 45316
InitialTemperature == 25000
SensorDefault == 25000
SimulatedTemperature == 22500
SampleSleep == 5
RetrySleep == 60
ReconnectSleep == 60

\* A settings path holds <<v>>, or <<>> when it does not exist.
Absent == <<>>
NoText == "unread"

\* The settings paths in the order main() provisions them.
Steps == <<OBJ_PATH, "/DeviceInstance", "/ProductId", "/ProductName",
           "/CustomName">>

Paths == {Steps[i] : i \in 1..Len(Steps)}

\* The defaults with /ProductId and /DeviceInstance swapped.
DefaultSwapped(path) ==
    CASE path = OBJ_PATH -> <<InitialTemperature>>
      [] path = "/DeviceInstance" -> <<PRODUCT_ID>>
      [] path = "/ProductId" -> <<DEVICE_INSTANCE>>
      [] path = "/ProductName" -> <<DRIVER_NAME>>
      [] path = "/CustomName" -> <<DRIVER_NAME>>

\* The value main() passes to settings.SetValue for each path.
Default(path) ==
    CASE path = OBJ_PATH -> <<InitialTemperature>>
      [] path = "/DeviceInstance" -> <<DEVICE_INSTANCE>>
      [] path = "/ProductId" -> <<PRODUCT_ID>>
      [] path = "/ProductName" -> <<DRIVER_NAME>>
      [] path = "/CustomName" -> <<DRIVER_NAME>>

\* A value another bus client may have stored at a path.
Foreign(path) ==
    CASE path = OBJ_PATH -> <<4000>>
      [] path = "/DeviceInstance" -> <<30>>
      [] path = "/ProductId" -> <<1>>
      [] path = "/ProductName" -> <<"Fridge">>
      [] path = "/CustomName" -> <<"Galley fridge">>

\* Readings the sensor can deliver: the simulated 22.5 and an exact binary
\* tie below zero (-1.25).
SensorReadings == {SimulatedTemperature, -1250}

\* The value a bus client writes to the Value property: 3.96, whose
\* rendering carries into the units.
ClientValue == 3960

(***************************************************************************)
(* f"{self._temperature:.1f} °C" (line 242).                           *)
(***************************************************************************)

\* |t| in thousandths rounded to tenths as the 'f' presentation type does:
\* to nearest, an exact tie to the even digit.  A tie is exact in binary
\* only at .25 and .75, which is all SensorReadings contains.
RoundTenths(a) ==
    LET q == a \div 100
        r == a % 100
    IN  IF r > 50 \/ (r = 50 /\ q % 2 = 1) THEN q + 1 ELSE q

\* The one-decimal rendering, sign included ("-0.0" for -0.04).
FormatF1(t) ==
    LET a == IF t < 0 THEN 0 - t ELSE t
        n == RoundTenths(a)
    IN  (IF t < 0 THEN "-" ELSE "") \o ToString(n \div 10) \o "."
            \o ToString(n % 10)

\* Text as it would be if the string were built once in __init__ instead
\* of on every read.
TextCached(t) == FormatF1(InitialTemperature) \o " °C"

\* TemperatureService.Text
Text(t) == FormatF1(t) \o " °C"

(***************************************************************************)
(* What bus clients see.                                                   *)
(***************************************************************************)

\* A device object is reachable at OBJ_PATH.
Exported == connAlive /\ registered > 0

\* SERVICE_NAME is owned by this process.
NameOwned == connAlive /\ nameClaimed

(***************************************************************************)
(* Initial state: main() has been called, line 184 not yet executed.       *)
(***************************************************************************)

\* Settings stores main() may find: empty, complete with another party's
\* values, and partly provisioned.
InitialStores ==
    { [p \in Paths |-> Absent],
      [p \in Paths |-> Foreign(p)],
      [p \in Paths |-> IF p \in {OBJ_PATH, "/ProductId"}
                         THEN Foreign(p) ELSE Absent] }

Init ==
    /\ pc = "setup"
    /\ step = 1
    /\ attempts = 0
    /\ busUp \in BOOLEAN
    /\ connGen = 0
    /\ connAlive = FALSE
    /\ store \in InitialStores
    /\ nameClaimed = FALSE
    /\ registered = 0
    /\ objId = 0
    /\ temperature = InitialTemperature
    /\ temp = 0
    /\ running = FALSE
    /\ slept = 0
    /\ excKind = "none"
    /\ excAt = "none"
    /\ getErr = "none"
    /\ degraded = FALSE
    /\ writes = 0
    /\ signals = 0
    /\ lastSet = InitialTemperature
    /\ sampleKind = "none"
    /\ fresh = (\A p \in Paths : store[p] = Absent)
    /\ faulted = FALSE
    /\ externals = FALSE
    /\ textRead = NoText
    /\ done = <<>>
    /\ objGen = 0
    /\ exportAttempt = 0

envVars == <<busUp, connAlive, store, externals, textRead>>
connVars == <<connGen, nameClaimed, registered>>
objVars == <<objId, temperature, writes, signals, lastSet>>
loopVars == <<temp, running, degraded, sampleKind>>
ghostVars == <<fresh, getErr, done, objGen, exportAttempt>>

\* An exception of class kind leaves the statement at pc for handler.
Raise(kind, handler) ==
    /\ pc' = handler
    /\ excKind' = kind
    /\ excAt' = pc
    /\ faulted' = TRUE

NoRaise == UNCHANGED <<excKind, excAt, faulted>>

(***************************************************************************)
(* main(), lines 184-312.                                                  *)
(***************************************************************************)

\* Line 184, outside the while and the try: an exception here leaves main.
Setup ==
    /\ pc = "setup"
    /\ \/ pc' = "connect" /\ NoRaise
       \/ Raise("Exception", "exited")
    /\ UNCHANGED <<step, attempts, slept>>
    /\ UNCHANGED <<envVars, connVars, objVars, loopVars, ghostVars>>

\* Line 189, bus = dbus.SystemBus(): the process-wide shared connection
\* while it is open, a new connection once it has been closed.
Connect ==
    /\ pc = "connect"
    /\ attempts < MaxAttempts
    /\ attempts' = attempts + 1
    /\ \/ /\ busUp /\ connAlive
          /\ pc' = "get_object"
          /\ NoRaise
          /\ UNCHANGED <<connVars, connAlive>>
       \/ /\ busUp /\ ~connAlive
          /\ pc' = "get_object"
          /\ NoRaise
          /\ connGen' = connGen + 1
          /\ connAlive' = TRUE
          /\ nameClaimed' = FALSE
          /\ registered' = 0
       \/ /\ ~busUp
          /\ Raise("DBusException", "dbus_exc")
          /\ UNCHANGED <<connVars, connAlive>>
    /\ done' = <<>>
    /\ slept' = 0
    /\ UNCHANGED <<step, busUp, store, externals, textRead>>
    /\ UNCHANGED <<objVars, loopVars, fresh, getErr, objGen, exportAttempt>>

\* Lines 192-193: the proxy of com.victronenergy.settings.
GetObject ==
    /\ pc = "get_object"
    /\ \/ connAlive /\ pc' = "get" /\ step' = 1 /\ NoRaise
       \/ Raise("DBusException", "dbus_exc") /\ UNCHANGED step
    /\ UNCHANGED <<attempts, slept>>
    /\ UNCHANGED <<envVars, connVars, objVars, loopVars, ghostVars>>

\* AfterPath as it would be if the four identity paths were provisioned
\* right after the registration root, before lines 204-245.
AfterPathMetadataFirst ==
    /\ done' = Append(done, Steps[step])
    /\ IF step < Len(Steps) THEN pc' = "get" /\ step' = step + 1
       ELSE pc' = "busname" /\ step' = step

\* The provisioning of Steps[step] is complete; the statement after it: line
\* 204 after the
\* registration root, the next path's GetValue after lines 256-257, 267-268
\* and 278-279 (plain attributes of the Python object, nothing on the bus),
\* line 293 after 289-290.
AfterPath ==
    /\ done' = Append(done, Steps[step])
    /\ IF step = 1 THEN pc' = "busname" /\ step' = step
       ELSE IF step < Len(Steps) THEN pc' = "get" /\ step' = step + 1
       ELSE pc' = "mainloop" /\ step' = step

\* Lines 197, 250, 262, 273, 284: settings.GetValue(path) in a try whose
\* except clause (198, 251, 263, 274, 285) takes every DBusException.
GetValue ==
    /\ pc = "get"
    /\ \/ /\ connAlive /\ store[Steps[step]] # Absent
          /\ AfterPath
          /\ UNCHANGED <<getErr, faulted>>
       \/ /\ connAlive /\ store[Steps[step]] = Absent
          /\ pc' = "set" /\ getErr' = "NoSuchPath"
          /\ UNCHANGED <<step, faulted, done>>
       \/ /\ pc' = "set" /\ getErr' = "Other"
          /\ faulted' = TRUE
          /\ UNCHANGED <<step, done>>
    /\ UNCHANGED <<attempts, slept, excKind, excAt, fresh>>
    /\ UNCHANGED <<objGen, exportAttempt>>
    /\ UNCHANGED <<envVars, connVars, objVars, loopVars>>

\* Lines 199-200, 252-253, 264-265, 275-276, 286-287: log, then
\* settings.SetValue(path, default).
SetValue ==
    /\ pc = "set"
    /\ \/ /\ connAlive
          /\ store' = [store EXCEPT ![Steps[step]] = Default(Steps[step])]
          /\ AfterPath
          /\ NoRaise
       \/ /\ Raise("DBusException", "dbus_exc")
          /\ UNCHANGED <<step, store, done>>
    /\ getErr' = "none"
    /\ UNCHANGED <<attempts, slept, busUp, connAlive, externals, textRead>>
    /\ UNCHANGED <<connVars, objVars, loopVars, fresh>>
    /\ UNCHANGED <<objGen, exportAttempt>>

\* Line 204: dbus.service.BusName(SERVICE_NAME, bus=bus).
ClaimName ==
    /\ pc = "busname"
    /\ \/ /\ connAlive
          /\ nameClaimed' = TRUE
          /\ pc' = "export"
          /\ done' = Append(done, "BusName")
          /\ NoRaise
       \/ /\ Raise("DBusException", "dbus_exc")
          /\ UNCHANGED <<nameClaimed, done>>
    /\ UNCHANGED <<step, attempts, slept, connGen, registered>>
    /\ UNCHANGED <<envVars, objVars, loopVars>>
    /\ UNCHANGED <<fresh, getErr, objGen, exportAttempt>>

\* Export as it would be if a failure of the registration were swallowed
\* and provisioning went on with the object of an earlier attempt.
ExportIgnoresFailure ==
    /\ pc = "export"
    /\ \/ /\ registered = 0
          /\ registered' = 1
          /\ objId' = objId + 1
          /\ temperature' = InitialTemperature
          /\ lastSet' = InitialTemperature
          /\ writes' = 0
          /\ signals' = 0
          /\ objGen' = connGen
          /\ done' = Append(done, "TemperatureService")
          /\ pc' = "get"
          /\ step' = 2
          /\ NoRaise
       \/ /\ registered > 0
          /\ pc' = "get"
          /\ step' = 2
          /\ NoRaise
          /\ UNCHANGED <<registered, objVars, objGen, done>>
    /\ exportAttempt' = attempts
    /\ textRead' = IF registered = 0 THEN NoText ELSE textRead
    /\ UNCHANGED <<attempts, slept, connGen, nameClaimed>>
    /\ UNCHANGED <<busUp, connAlive, store, externals>>
    /\ UNCHANGED <<loopVars, fresh, getErr>>

\* Export as it would be if a second object could be registered at
\* OBJ_PATH on a connection that already carries one.
ExportRegistersAgain ==
    /\ pc = "export"
    /\ \/ /\ registered' = registered + 1
          /\ objId' = objId + 1
          /\ temperature' = InitialTemperature
          /\ lastSet' = InitialTemperature
          /\ writes' = 0
          /\ signals' = 0
          /\ objGen' = connGen
          /\ done' = Append(done, "TemperatureService")
          /\ pc' = "get"
          /\ step' = 2
          /\ NoRaise
       \/ /\ FALSE
          /\ Raise("KeyError", "exc")
          /\ UNCHANGED <<registered, objVars, step, objGen, done>>
    /\ exportAttempt' = attempts
    /\ textRead' = NoText
    /\ UNCHANGED <<attempts, slept, connGen, nameClaimed>>
    /\ UNCHANGED <<busUp, connAlive, store, externals>>
    /\ UNCHANGED <<loopVars, fresh, getErr>>

\* Lines 205-245: the class statement, then TemperatureService(bus,
\* OBJ_PATH).  __init__ registers the object at OBJ_PATH on the connection
\* (a path that already has a handler on that connection is refused with a
\* KeyError) and sets _temperature = 25.0.
Export ==
    /\ pc = "export"
    /\ \/ /\ registered = 0
          /\ registered' = 1
          /\ objId' = objId + 1
          /\ temperature' = InitialTemperature
          /\ lastSet' = InitialTemperature
          /\ writes' = 0
          /\ signals' = 0
          /\ objGen' = connGen
          /\ done' = Append(done, "TemperatureService")
          /\ pc' = "get"
          /\ step' = 2
          /\ NoRaise
       \/ /\ registered > 0
          /\ Raise("KeyError", "exc")
          /\ UNCHANGED <<registered, objVars, step, objGen, done>>
    /\ exportAttempt' = attempts
    /\ textRead' = IF registered = 0 THEN NoText ELSE textRead
    /\ UNCHANGED <<attempts, slept, connGen, nameClaimed>>
    /\ UNCHANGED <<busUp, connAlive, store, externals>>
    /\ UNCHANGED <<loopVars, fresh, getErr>>

\* Line 293: mainloop = GLib.MainLoop().
NewMainLoop ==
    /\ pc = "mainloop"
    /\ running' \in BOOLEAN
    /\ pc' = "loop_test"
    /\ NoRaise
    /\ UNCHANGED <<step, attempts, slept, temp, degraded, sampleKind>>
    /\ UNCHANGED <<envVars, connVars, objVars, ghostVars>>

\* Line 296: while mainloop.is_running().  When it is false the while
\* True of line 186 starts over at line 189 without sleeping.
LoopTest ==
    /\ pc = "loop_test"
    /\ pc' = IF running THEN "read" ELSE "connect"
    /\ NoRaise
    /\ slept' = 0
    /\ sampleKind' = "none"
    /\ UNCHANGED <<step, attempts, temp, running, degraded>>
    /\ UNCHANGED <<envVars, connVars, objVars, ghostVars>>

\* read_temp(), lines 142-177, by the way it ends: a reading (line 159, or
\* the simulated 22.5 of line 177), or the default 25.0 that every error
\* branch returns (lines 162, 165, 168, 171).
read_temp ==
    {[kind |-> "ok", value |-> r] : r \in SensorReadings}
        \cup {[kind |-> "default", value |-> SensorDefault]}

\* Line 298: temp = read_temp().  The shipped read_temp catches its own
\* errors; the sensor section is marked for replacement (lines 129, 143,
\* 174) and line 302 takes whatever a replacement raises.
ReadTemp ==
    /\ pc = "read"
    /\ writes < MaxWrites
    /\ \/ \E s \in read_temp :
             /\ temp' = s.value
             /\ sampleKind' = s.kind
             /\ pc' = "push"
             /\ NoRaise
       \/ /\ sampleKind' = "raised"
          /\ Raise("SensorError", "inner_exc")
          /\ UNCHANGED temp
    /\ UNCHANGED <<step, attempts, slept, running, degraded>>
    /\ UNCHANGED <<envVars, connVars, objVars, ghostVars>>

\* What the call of PropertiesChanged in lines 232-233 can do: emit the
\* signal; raise TypeError (the method is declared with one parameter,
\* line 211, and called with two); raise DBusException (the connection
\* refuses the message).
SignalOutcomes == {"emitted", "TypeError", "DBusException"}

\* Line 299: temperature_service.Value = temp, that is the setter of lines
\* 226-233: store the value, then call PropertiesChanged.
Push ==
    /\ pc = "push"
    /\ writes < MaxWrites
    /\ temperature' = temp
    /\ lastSet' = temp
    /\ writes' = writes + 1
    /\ \E o \in SignalOutcomes :
          \/ /\ o = "emitted"
             /\ connAlive
             /\ signals' = signals + 1
             /\ pc' = "log"
             /\ degraded' = FALSE
             /\ NoRaise
          \/ /\ o # "emitted"
             /\ Raise(o, "inner_exc")
             /\ UNCHANGED <<signals, degraded>>
    /\ textRead' = NoText
    /\ UNCHANGED <<step, attempts, slept, objId, temp, running, sampleKind>>
    /\ UNCHANGED <<busUp, connAlive, store, externals>>
    /\ UNCHANGED <<connVars, ghostVars>>

\* Lines 300-301: log the reading, sleep 5.
LogAndSleep ==
    /\ pc = "log"
    /\ slept' = SampleSleep
    /\ pc' = "loop_test"
    /\ temp' = 0
    /\ NoRaise
    /\ UNCHANGED <<step, attempts, running, degraded, sampleKind>>
    /\ UNCHANGED <<envVars, connVars, objVars, ghostVars>>

\* The handler of line 302 as it would be if it left the sampling loop
\* (a break after the sleep).
InnerExceptLeavesLoop ==
    /\ pc = "inner_exc"
    /\ degraded' = FALSE
    /\ slept' = RetrySleep
    /\ pc' = "connect"
    /\ temp' = 0
    /\ excKind' = "none"
    /\ excAt' = "none"
    /\ UNCHANGED faulted
    /\ UNCHANGED <<step, attempts, running, sampleKind>>
    /\ UNCHANGED <<envVars, connVars, objVars, ghostVars>>

\* Lines 302-305: except Exception inside the sampling loop.
InnerExcept ==
    /\ pc = "inner_exc"
    /\ degraded' = TRUE
    /\ slept' = RetrySleep
    /\ pc' = "loop_test"
    /\ temp' = 0
    /\ excKind' = "none"
    /\ excAt' = "none"
    /\ UNCHANGED faulted
    /\ UNCHANGED <<step, attempts, running, sampleKind>>
    /\ UNCHANGED <<envVars, connVars, objVars, ghostVars>>

\* Lines 306-309: except dbus.DBusException of the outer try.
DBusExcept ==
    /\ pc = "dbus_exc"
    /\ slept' = ReconnectSleep
    /\ pc' = "connect"
    /\ degraded' = FALSE
    /\ excKind' = "none"
    /\ excAt' = "none"
    /\ UNCHANGED faulted
    /\ UNCHANGED <<step, attempts, temp, running, sampleKind>>
    /\ UNCHANGED <<envVars, connVars, objVars, ghostVars>>

\* Lines 310-312: except Exception of the outer try.
OtherExcept ==
    /\ pc = "exc"
    /\ slept' = ReconnectSleep
    /\ pc' = "connect"
    /\ degraded' = FALSE
    /\ excKind' = "none"
    /\ excAt' = "none"
    /\ UNCHANGED faulted
    /\ UNCHANGED <<step, attempts, temp, running, sampleKind>>
    /\ UNCHANGED <<envVars, connVars, objVars, ghostVars>>

(***************************************************************************)
(* The environment.                                                        *)
(***************************************************************************)

\* The system bus goes away: the connection closes, and with it the bus
\* drops the service name and the exported object.
BusDrop ==
    /\ busUp
    /\ busUp' = FALSE
    /\ connAlive' = FALSE
    /\ faulted' = TRUE
    /\ textRead' = NoText
    /\ UNCHANGED <<pc, step, attempts, slept, excKind, excAt>>
    /\ UNCHANGED <<store, externals>>
    /\ UNCHANGED <<connVars, objVars, loopVars, ghostVars>>

\* The system bus comes back.
BusRestore ==
    /\ ~busUp
    /\ busUp' = TRUE
    /\ UNCHANGED <<pc, step, attempts, slept, excKind, excAt, faulted>>
    /\ UNCHANGED <<connAlive, store, externals, textRead>>
    /\ UNCHANGED <<connVars, objVars, loopVars, ghostVars>>

\* Another bus client stores its own value at a settings path while the
\* bus is up: the user renames the device.
ExternalSetValue ==
    /\ busUp
    /\ \E p \in {"/CustomName"} :
          /\ store[p] # Foreign(p)
          /\ store' = [store EXCEPT ![p] = Foreign(p)]
    /\ externals' = TRUE
    /\ UNCHANGED <<pc, step, attempts, slept, excKind, excAt, faulted>>
    /\ UNCHANGED <<busUp, connAlive, textRead>>
    /\ UNCHANGED <<connVars, objVars, loopVars, ghostVars>>

\* A bus client reads the Text property (lines 235-242).
ClientGetText ==
    /\ Exported
    /\ textRead' = Text(temperature)
    /\ UNCHANGED <<pc, step, attempts, slept, excKind, excAt, faulted>>
    /\ UNCHANGED <<busUp, connAlive, store, externals>>
    /\ UNCHANGED <<connVars, objVars, loopVars, ghostVars>>

\* A bus client sets the Value property, which line 219 declares
\* PROP_ACCESS_READWRITE: the setter of lines 226-233 runs with the client's
\* value; an exception of the signal call goes back to the client, not to
\* main().
ClientSetValue ==
    /\ Exported
    /\ writes < MaxWrites
    /\ temperature' = ClientValue
    /\ lastSet' = ClientValue
    /\ writes' = writes + 1
    /\ \E o \in SignalOutcomes :
          signals' = IF o = "emitted" THEN signals + 1 ELSE signals
    /\ textRead' = NoText
    /\ UNCHANGED <<pc, step, attempts, slept, excKind, excAt, faulted>>
    /\ UNCHANGED <<busUp, connAlive, store, externals, objId>>
    /\ UNCHANGED <<connVars, loopVars, ghostVars>>

Next ==
    \/ Setup
    \/ Connect
    \/ GetObject
    \/ GetValue
    \/ SetValue
    \/ ClaimName
    \/ Export
    \/ NewMainLoop
    \/ LoopTest
    \/ ReadTemp
    \/ Push
    \/ LogAndSleep
    \/ InnerExcept
    \/ DBusExcept
    \/ OtherExcept
    \/ BusDrop
    \/ BusRestore
    \/ ExternalSetValue
    \/ ClientGetText
    \/ ClientSetValue

Spec == Init /\ [][Next]_vars

TypeOK ==
    /\ pc \in {"setup", "connect", "get_object", "get", "set", "busname",
               "export", "mainloop", "loop_test", "read", "push", "log",
               "inner_exc", "dbus_exc", "exc", "exited"}
    /\ step \in 1..Len(Steps)
    /\ attempts \in 0..MaxAttempts
    /\ connAlive => busUp
    /\ registered \in 0..1
    /\ writes \in 0..MaxWrites
    /\ signals \in 0..writes

(***************************************************************************)
(* The connection state of the specification, read off the position of     *)
(* main(): there is no such variable in the code.                          *)
(***************************************************************************)
SamplingCycle == {"mainloop", "loop_test", "read", "push", "log", "inner_exc"}

ConnState ==
    CASE pc \in {"setup", "dbus_exc", "exc", "exited"} -> "Disconnected"
      [] pc \in {"connect", "get_object", "get", "set", "busname", "export"}
            -> "Connecting"
      [] pc = "inner_exc" -> "Degraded"
      [] OTHER -> IF degraded THEN "Degraded" ELSE "Registered"

(***************************************************************************)
(* Properties.                                                             *)
(***************************************************************************)

\* C1: whenever the write of a fresh sample to Value fails with a bus-level
\* error inside the sampling cycle, the supervisor leaves the sampling
\* cycle and becomes Disconnected (to reconnect after the backoff).
C1_PushFailureForcesReconnect ==
    [][(pc = "push" /\ excKind' = "DBusException")
          => (pc' \notin SamplingCycle /\ ConnState' = "Disconnected")]_vars

\* C2: a sampling failure (read_temp raising, or taking one of its error
\* branches and returning the default) never changes the published Value.
C2_StaleValuePreserved ==
    [][(pc \in SamplingCycle /\ pc' # pc
            /\ sampleKind' \in {"raised", "default"})
          => temperature' = temperature]_vars

\* C3: the number of PropertiesChanged signals emitted by the exported
\* object equals the number of writes through its Value setter.
C3_NotificationPerWrite == signals = writes

\* The rendering the specification gives for a value: one decimal place
\* and the unit suffix.
Rendering(v) == FormatF1(v) \o " °C"

\* C4: in every reachable state Text is the rendering of the value last
\* written through the Value setter (the initial 25.0 before any write),
\* and a client that reads Text gets exactly that.
C4_TextFollowsValue ==
    /\ objId > 0 => Text(temperature) = Rendering(lastSet)
    /\ textRead # NoText => textRead = Rendering(lastSet)

\* C4 witness: 22.5 has been written and a client has read "22.5 °C".
C4_Witness ==
    /\ writes > 0
    /\ lastSet = 22500
    /\ textRead = "22.5 °C"

\* C5: when a SetValue of /DeviceInstance, /ProductId, /ProductName or
\* /CustomName fails, then once the attempt has been abandoned no device
\* object is exported and the service name is not claimed.
C5_NoPartialRegistration ==
    [][(pc = "dbus_exc" /\ excAt = "set" /\ step >= 2 /\ pc' = "connect")
          => (~Exported' /\ ~NameOwned')]_vars

\* C6: the provisioning step never writes a settings path that exists.
C6_ExistingPathNeverWritten ==
    [][(pc = "set" /\ pc' # pc /\ store[Steps[step]] # Absent)
          => store' = store]_vars

\* C7: when GetValue fails for a reason other than "does not exist", no
\* SetValue follows and the failure aborts the connection attempt.
C7_OnlyMissingPathIsCreated ==
    [][(pc = "get" /\ getErr' = "Other") => pc' = "dbus_exc"]_vars

\* C8: main never terminates on an error raised by one of its steps.
C8_NoErrorIsFatal == pc # "exited"

\* C9: from an empty settings store and with no failing call, the first
\* connection attempt creates /DeviceInstance = 245, /ProductId = 0xB104,
\* /ProductName and /CustomName = 'Brass Monkey Fridge Monitor' and the
\* registration root = 25.0, exports the object, owns the service name and
\* ends Registered; it never enters an exception handler.
C9_FreshBusProvisioning ==
    (fresh /\ ~faulted /\ ~externals /\ attempts <= 1)
        => /\ pc \notin {"dbus_exc", "exc", "inner_exc", "exited"}
           /\ pc \in {"mainloop", "loop_test"}
                 => /\ store["/Settings/Temperature/BrassMonkey"] = <<25000>>
                    /\ store["/DeviceInstance"] = <<245>>
                    /\ store["/ProductId"] = <<45316>>
                    /\ store["/ProductName"]
                           = <<"Brass Monkey Fridge Monitor">>
                    /\ store["/CustomName"]
                           = <<"Brass Monkey Fridge Monitor">>
                    /\ Exported
                    /\ NameOwned
                    /\ objId = 1
                    /\ ConnState = "Registered"

\* C9 witness: the first attempt on an empty store has finished line 290
\* without a failing call.
C9_Witness ==
    /\ fresh /\ ~faulted /\ ~externals /\ attempts = 1
    /\ pc = "mainloop"
    /\ store["/DeviceInstance"] = <<245>>

\* C10: when read_temp raises in the sampling cycle, control goes to the
\* handler of line 302 with no connect, provisioning or export step; the
\* handler leaves the state Degraded, sleeps 60 and goes back to the loop
\* test, which continues with the next read_temp on the same object.
C10_SamplingFailureNoReconnect ==
    [][/\ (pc = "read" /\ excKind' = "SensorError")
            => /\ pc' = "inner_exc"
               /\ UNCHANGED <<connGen, nameClaimed, registered, objId,
                              store, attempts, temperature>>
       /\ (pc = "inner_exc" /\ excKind = "SensorError" /\ pc' # pc)
            => /\ pc' = "loop_test"
               /\ ConnState' = "Degraded"
               /\ slept' = 60
               /\ UNCHANGED <<connGen, nameClaimed, registered, objId,
                              store, attempts, temperature>>
       /\ (pc = "loop_test" /\ degraded /\ pc' # pc) => pc' = "read"]_vars

\* C10 witness: after a raising read_temp the handler has slept 60 and is
\* back at the loop test, still in the first connection attempt.
C10_Witness ==
    /\ pc = "loop_test"
    /\ sampleKind = "raised"
    /\ degraded
    /\ slept = 60
    /\ attempts = 1
    /\ objId = 1

\* C11: the stored Value of the exported object changes only by the
\* supervisor's own write in the sampling cycle (line 299); no request of
\* another bus client changes it.
C11_SingleWriter ==
    [][(objId' = objId /\ temperature' # temperature)
          => (pc = "push" /\ pc' # pc)]_vars

\* The order of provisioning the specification prescribes.
ProvisioningOrder ==
    <<OBJ_PATH, "BusName", "TemperatureService", "/DeviceInstance",
      "/ProductId", "/ProductName", "/CustomName">>

IsPrefix(a, b) == Len(a) <= Len(b) /\ SubSeq(b, 1, Len(a)) = a

\* C12: in every connection attempt the steps complete in the order
\* registration root, service name and object export, /DeviceInstance,
\* /ProductId, /ProductName, /CustomName; no identity path is read or
\* written before the object is exported, and the supervisor pushes no
\* sample before all of them are done.
C12_ProvisioningOrder ==
    /\ IsPrefix(done, ProvisioningOrder)
    /\ (pc \in {"get", "set"} /\ step >= 2) => Len(done) >= 3
    /\ pc \in {"read", "push", "log", "inner_exc"}
          => done = ProvisioningOrder

\* C12 witness: a sample is about to be pushed after an attempt that had to
\* create every path.
C12_Witness ==
    /\ pc = "push"
    /\ fresh
    /\ ~externals
    /\ done = ProvisioningOrder

\* C13: once provisioning is complete the sampling cycle runs: the loop
\* test of line 296 goes on to read_temp, and after a push the supervisor
\* sleeps 5 and comes back to the loop test; the cycle is not left on its
\* own.
C13_SamplingCycleRuns ==
    [][/\ (pc = "loop_test" /\ pc' # pc) => pc' = "read"
       /\ (pc = "log" /\ pc' # pc) => (pc' = "loop_test" /\ slept' = 5)]_vars

\* C14: an attempt that fails with a bus error is followed, after a sleep of
\* 60, by a new attempt, and an attempt is given up only on a bus error, so
\* that attempts on an available bus end Registered.
C14_RetryUntilRegistered ==
    [][/\ (pc = "dbus_exc" /\ pc' # pc) => (pc' = "connect" /\ slept' = 60)
       /\ (ConnState = "Connecting" /\ pc' \in {"dbus_exc", "exc"})
            => excKind' = "DBusException"]_vars

\* C15: an exception that is neither a sampling failure nor a bus error,
\* raised in the sampling cycle or during connection establishment, moves
\* the supervisor to Disconnected.
C15_UnclassifiedIsBusLevel ==
    [][(excKind = "none"
            /\ excKind' \notin {"none", "SensorError", "DBusException"})
          => ConnState' = "Disconnected"]_vars

\* The elements of a sequence.
Range(q) == {q[i] : i \in 1..Len(q)}

C17_OneExportPerGeneration ==
    [][/\ (pc = "export" /\ pc' # pc) => attempts > exportAttempt
       /\ objId' # objId
            => (registered = 0 /\ registered' = 1 /\ connGen > objGen)
       /\ registered' <= 1]_vars

\* C17 witness: a second object has been exported, on a second connection.
C17_Witness ==
    /\ objId = 2
    /\ connGen = 2
    /\ registered = 1
    /\ connAlive

\* C18: every execution of the export step creates a new object whose
\* Value is 25.0 and emits no notification, and no step of the supervisor
\* other than a successful push takes the Value away from 25.0.
C18_ValueResetOnExport ==
    [][/\ (pc = "export" /\ pc' # pc)
            => (objId' # objId /\ temperature' = 25000 /\ signals' = 0)
       /\ (pc' # pc /\ pc' # "log" /\ objId > 0 /\ temperature = 25000)
            => temperature' = 25000]_vars

====
